---------------------------- MODULE Spec2Model ----------------------------
(***************************************************************************)
(* ThreadSafe::Queue<T, SmartPtr, Cmp> of queue_ts.hpp: a container (a     *)
(* std::queue when Cmp is void, a std::priority_queue otherwise) behind    *)
(* one std::mutex and one std::condition_variable, with push and the four  *)
(* pops pop_must, pop_try, pop_for and pop_until.                          *)
(*                                                                         *)
(* Every thread is a small program counter machine; one action is one      *)
(* step a thread takes between two points where another thread can run.    *)
(***************************************************************************)
EXTENDS Integers, Sequences, FiniteSets, Bags, TLC

\* ------------------------------------------------------------------ bounds
MaxCalls == 4      \* calls made on the queue over the whole run
MaxPush  == 3      \* pushes over the whole run
MaxVal   == 2      \* payloads are 1..MaxVal
MaxTime  == 1      \* the clock runs 0..MaxTime
MaxDur   == 1      \* pop_for durations are -1..MaxDur

Threads  == {"t1", "t2", "t3"}
Values   == 1..MaxVal
Durations == (-1)..MaxDur
TimePoints == 0..MaxTime

NoThread == "none"                 \* the mutex is free
Null     == [id |-> 0, val |-> 0]  \* an empty SmartPtr<T> (nullptr)
NoRet    == [id |-> -1, val |-> 0] \* the thread has not returned from a pop yet
BadAlloc == [id |-> -2, val |-> 0] \* the call ended by throwing std::bad_alloc
NoSignal == [saw |-> {}, woke |-> {}]

VARIABLES
  mode,       \* "fifo": Cmp is void; "prio": Cmp is a comparator (fixed per instance)
  container,  \* _container: the handles, as the underlying deque / vector holds them
  lock,       \* _lock: the thread that owns the mutex, or NoThread
  waiters,    \* _cv: the threads blocked in a wait on the condition variable
  pc,         \* where each thread is
  arg,        \* the argument of the call a thread is in (value, duration, time point)
  deadline,   \* the absolute time the timed wait of the thread ends at
  ret,        \* how the thread's last call ended: what its pop returned
  now,        \* the clock
  ncalls,     \* calls made so far
  pushed,     \* history: the values pushed, in the order of insertion (index = item id)
  returned,   \* history: the items returned by pops, in the order of removal
  signal,     \* history: the notify_one of the push in progress: the wait set it
              \* saw and the threads it unblocked
  pending,    \* history: the threads a notify_one or a timeout has unblocked and
              \* that have not taken the mutex again yet
  destroyed   \* the Queue object has been destroyed

vars == <<mode, container, lock, waiters, pc, arg, deadline, ret, now, ncalls,
          pushed, returned, signal, pending, destroyed>>

\* ------------------------------------------------------- the container
\* An item is the T a push allocated: its identity (the allocation) and its value.
Item(i, v) == [id |-> i, val |-> v]

\* Cmp over two handles: the comparator orders the values the handles point at.
Cmp(a, b) == a.val < b.val

Swap(s, i, j) == [s EXCEPT ![i] = s[j], ![j] = s[i]]

\* (mutant) push_heap is left out: the new element stays last.
SiftUpNone(s, i) == s

\* std::push_heap: the new last element rises while its parent compares less.
RECURSIVE SiftUp(_, _)
SiftUp(s, i) ==
  IF i = 1 THEN s
  ELSE LET p == i \div 2 IN
       IF Cmp(s[p], s[i]) THEN SiftUp(Swap(s, p, i), p) ELSE s

\* std::pop_heap's adjust: the element at i sinks below its greater child.
RECURSIVE SiftDown(_, _)
SiftDown(s, i) ==
  LET n == Len(s)
      l == 2 * i
      r == 2 * i + 1
      a == IF l <= n /\ Cmp(s[i], s[l]) THEN l ELSE i
      b == IF r <= n /\ Cmp(s[a], s[r]) THEN r ELSE a
  IN IF b = i THEN s ELSE SiftDown(Swap(s, i, b), b)

\* (mutant) the handle is inserted at the front of the sequence.
ContainerPushFront(m, c, h) == <<h>> \o c

\* (mutant) the handle is inserted twice.
ContainerPushTwice(m, c, h) == Append(Append(c, h), h)

\* _container.push(h): std::queue appends; std::priority_queue appends and push_heaps.
ContainerPush(m, c, h) ==
  IF m = "fifo" THEN Append(c, h) ELSE SiftUp(Append(c, h), Len(c) + 1)

\* _container.front() / _container.top(): the first element of the underlying sequence.
ContainerFront(m, c) == c[1]

\* (mutant) the back of the sequence is dropped instead of the front.
ContainerPopBack(m, c) == SubSeq(c, 1, Len(c) - 1)

\* _container.pop(): std::queue drops the front; std::priority_queue pop_heaps
\* (the last element replaces the first and sinks) and drops the back.
ContainerPop(m, c) ==
  IF m = "fifo" THEN Tail(c)
  ELSE IF Len(c) = 1 THEN <<>>
       ELSE SiftDown([SubSeq(c, 1, Len(c) - 1) EXCEPT ![1] = c[Len(c)]], 1)

\* (mutant) the handle is read but never removed: _container.pop() is missing.
PopKeep(m, c) == [ret |-> ContainerFront(m, c), rest |-> c]

\* _pop(): ret = front/top; _container.pop(); return ret.
_pop(m, c) == [ret |-> ContainerFront(m, c), rest |-> ContainerPop(m, c)]

\* ---------------------------------------------------------------- state
Init ==
  /\ mode \in {"fifo", "prio"}
  /\ container = <<>>
  /\ lock = NoThread
  /\ waiters = {}
  /\ pc = [t \in Threads |-> "idle"]
  /\ arg = [t \in Threads |-> 0]
  /\ deadline = [t \in Threads |-> 0]
  /\ ret = [t \in Threads |-> NoRet]
  /\ now = 0
  /\ ncalls = 0
  /\ pushed = <<>>
  /\ returned = <<>>
  /\ signal = NoSignal
  /\ pending = {}
  /\ destroyed = FALSE

\* The pc of a thread that left a wait on the condition variable and has to
\* take the mutex again before its wait returns.
Woken(p) == IF p = "must_wait" THEN "must_woken" ELSE "timed_woken"

\* (mutant) the operation does not lock: the caller proceeds whoever owns the
\* mutex.
EnterNoLock(t, p, a) ==
  /\ pc[t] = "idle"
  /\ ~destroyed
  /\ ncalls < MaxCalls
  /\ lock' = t
  /\ pc' = [pc EXCEPT ![t] = p]
  /\ arg' = [arg EXCEPT ![t] = a]
  /\ ncalls' = ncalls + 1
  /\ ret' = [ret EXCEPT ![t] = NoRet]
  /\ UNCHANGED <<mode, destroyed, pending, container, waiters, deadline, now, pushed,
                 returned, signal>>

\* A caller enters an operation and constructs its std::lock_guard /
\* std::unique_lock: the thread blocks until the mutex is free and then owns it.
EnterLocked(t, p, a) ==
  /\ pc[t] = "idle"
  /\ ~destroyed
  /\ ncalls < MaxCalls
  /\ lock = NoThread
  /\ lock' = t
  /\ pc' = [pc EXCEPT ![t] = p]
  /\ arg' = [arg EXCEPT ![t] = a]
  /\ ncalls' = ncalls + 1
  /\ ret' = [ret EXCEPT ![t] = NoRet]
  /\ UNCHANGED <<mode, destroyed, pending, container, waiters, deadline, now, pushed,
                 returned, signal>>

\* The re-lock that ends a wait on the condition variable.
Relock(t, from, to) ==
  /\ pc[t] = from
  /\ ~destroyed
  /\ lock = NoThread
  /\ lock' = t
  /\ pc' = [pc EXCEPT ![t] = to]
  /\ pending' = pending \ {t}
  /\ UNCHANGED <<mode, destroyed, container, waiters, arg, deadline, ret, now, ncalls,
                 pushed, returned, signal>>

\* ----------------------------------------------------------------- push
PushLock(t) ==
  /\ Len(pushed) < MaxPush
  /\ \E v \in Values : EnterLocked(t, "push_insert", v)

\* (mutant) a bounded queue: a push that finds an item in the container waits on
\* the condition variable for room.
PushInsertBounded(t) ==
  /\ pc[t] = "push_insert"
  /\ IF container = <<>>
       THEN /\ container' = ContainerPush(mode, container, Item(Len(pushed) + 1, arg[t]))
            /\ pushed' = Append(pushed, arg[t])
            /\ pc' = [pc EXCEPT ![t] = "push_notify"]
            /\ arg' = [arg EXCEPT ![t] = 0]
            /\ UNCHANGED <<lock, waiters>>
       ELSE /\ lock' = NoThread
            /\ waiters' = waiters \cup {t}
            /\ pc' = [pc EXCEPT ![t] = "must_wait"]
            /\ UNCHANGED <<container, pushed, arg>>
  /\ UNCHANGED <<mode, destroyed, pending, deadline, ret, now, ncalls, returned, signal>>

\* _container.push(SmartPtr<T>(new T(value)))
PushInsert(t) ==
  /\ pc[t] = "push_insert"
  /\ container' = ContainerPush(mode, container, Item(Len(pushed) + 1, arg[t]))
  /\ pushed' = Append(pushed, arg[t])
  /\ pc' = [pc EXCEPT ![t] = "push_notify"]
  /\ arg' = [arg EXCEPT ![t] = 0]
  /\ UNCHANGED <<mode, destroyed, pending, lock, waiters, deadline, ret, now, ncalls,
                 returned, signal>>

\* (mutant) the mutex is locked and unlocked by hand instead of by a guard: the
\* exception leaves the function with the mutex still locked.
PushFailLocked(t) ==
  /\ pc[t] = "push_insert"
  /\ pc' = [pc EXCEPT ![t] = "idle"]
  /\ ret' = [ret EXCEPT ![t] = BadAlloc]
  /\ arg' = [arg EXCEPT ![t] = 0]
  /\ UNCHANGED <<mode, destroyed, pending, container, lock, waiters, deadline, now,
                 ncalls, pushed, returned, signal>>

\* new T(value), the SmartPtr's control block or the container's storage cannot
\* be allocated: the exception leaves push before anything was inserted and
\* before notify_one; the lock_guard's destructor releases the mutex.
PushFail(t) ==
  /\ pc[t] = "push_insert"
  /\ lock' = NoThread
  /\ pc' = [pc EXCEPT ![t] = "idle"]
  /\ ret' = [ret EXCEPT ![t] = BadAlloc]
  /\ arg' = [arg EXCEPT ![t] = 0]
  /\ UNCHANGED <<mode, destroyed, pending, container, waiters, deadline, now, ncalls,
                 pushed, returned, signal>>

\* (mutant) notify_all: every waiting thread is unblocked.
NotifyAll(ws) == {ws}

\* _cv.notify_one(): the sets of threads the call may unblock, given the wait set.
NotifyOne(ws) == IF ws = {} THEN {{}} ELSE {{u} : u \in ws}

\* (mutant) push does not signal the condition variable at all.
PushNoNotify(t) ==
  /\ pc[t] = "push_notify"
  /\ pc' = [pc EXCEPT ![t] = "push_unlock"]
  /\ signal' = [saw |-> waiters, woke |-> {}]
  /\ UNCHANGED <<mode, destroyed, pending, container, lock, waiters, arg, deadline,
                 ret, now, ncalls,
                 pushed, returned>>

\* (mutant) the consumer is signalled only when the push made the container
\* non-empty; a push into a non-empty container signals nobody.
PushNotifyIfFirst(t) ==
  /\ pc[t] = "push_notify"
  /\ \E W \in (IF Len(container) = 1 THEN NotifyOne(waiters) ELSE {{}}) :
       /\ waiters' = waiters \ W
       /\ pc' = [u \in Threads |-> IF u = t THEN "push_unlock"
                                    ELSE IF u \in W THEN Woken(pc[u]) ELSE pc[u]]
       /\ signal' = [saw |-> waiters, woke |-> W]
       /\ pending' = pending \cup W
  /\ UNCHANGED <<mode, destroyed, container, lock, arg, deadline, ret, now, ncalls,
                 pushed,
                 returned>>

\* (mutant) the lock_guard is scoped around the insertion only: the mutex is
\* released before notify_one is called.
PushNotifyUnlocked(t) ==
  /\ pc[t] = "push_notify"
  /\ lock' = NoThread
  /\ \E W \in NotifyOne(waiters) :
       /\ waiters' = waiters \ W
       /\ pc' = [u \in Threads |-> IF u = t THEN "push_unlock"
                                    ELSE IF u \in W THEN Woken(pc[u]) ELSE pc[u]]
       /\ signal' = [saw |-> waiters, woke |-> W]
       /\ pending' = pending \cup W
  /\ UNCHANGED <<mode, destroyed, container, arg, deadline, ret, now, ncalls, pushed,
                 returned>>

\* _cv.notify_one(), called with the mutex still held.
PushNotify(t) ==
  /\ pc[t] = "push_notify"
  /\ \E W \in NotifyOne(waiters) :
       /\ waiters' = waiters \ W
       /\ pc' = [u \in Threads |-> IF u = t THEN "push_unlock"
                                    ELSE IF u \in W THEN Woken(pc[u]) ELSE pc[u]]
       /\ signal' = [saw |-> waiters, woke |-> W]
       /\ pending' = pending \cup W
  /\ UNCHANGED <<mode, destroyed, container, lock, arg, deadline, ret, now, ncalls,
                 pushed,
                 returned>>

\* the lock_guard's destructor at the end of push
PushUnlock(t) ==
  /\ pc[t] = "push_unlock"
  /\ lock' = NoThread
  /\ pc' = [pc EXCEPT ![t] = "idle"]
  /\ signal' = NoSignal
  /\ UNCHANGED <<mode, destroyed, pending, container, waiters, arg, deadline, ret,
                 now, ncalls, pushed,
                 returned>>

\* ------------------------------------------------------------- the pops
\* return _pop(): the item leaves the container, the lock is released on return.
TakeAndReturn(t) ==
  /\ container' = _pop(mode, container).rest
  /\ ret' = [ret EXCEPT ![t] = _pop(mode, container).ret]
  /\ returned' = Append(returned, _pop(mode, container).ret)
  /\ lock' = NoThread
  /\ pc' = [pc EXCEPT ![t] = "idle"]
  /\ arg' = [arg EXCEPT ![t] = 0]
  /\ deadline' = [deadline EXCEPT ![t] = 0]
  /\ UNCHANGED waiters

\* return nullptr: nothing leaves the container, the lock is released on return.
ReturnNull(t) ==
  /\ ret' = [ret EXCEPT ![t] = Null]
  /\ lock' = NoThread
  /\ pc' = [pc EXCEPT ![t] = "idle"]
  /\ arg' = [arg EXCEPT ![t] = 0]
  /\ deadline' = [deadline EXCEPT ![t] = 0]
  /\ UNCHANGED <<container, returned, waiters>>

\* A wait on the condition variable begins: the mutex is released and the thread
\* joins the wait set in one atomic step.
BeginWait(t, p) ==
  /\ lock' = NoThread
  /\ waiters' = waiters \cup {t}
  /\ pc' = [pc EXCEPT ![t] = p]
  /\ arg' = [arg EXCEPT ![t] = 0]
  /\ UNCHANGED <<container, ret, returned>>

\* pop_try
PopTryLock(t) == pc[t] = "idle" /\ EnterLocked(t, "try_check", 0)

\* (mutant) pop_try waits on the condition variable when the container is empty.
PopTryWaits(t) ==
  /\ pc[t] = "try_check"
  /\ IF container = <<>>
       THEN BeginWait(t, "must_wait") /\ UNCHANGED deadline
       ELSE TakeAndReturn(t)
  /\ UNCHANGED <<mode, destroyed, pending, now, ncalls, pushed, signal>>

\* if (_container.empty()) return nullptr; return _pop();
PopTry(t) ==
  /\ pc[t] = "try_check"
  /\ IF container = <<>> THEN ReturnNull(t) ELSE TakeAndReturn(t)
  /\ UNCHANGED <<mode, destroyed, pending, now, ncalls, pushed, signal>>

\* pop_must
PopMustLock(t) == pc[t] = "idle" /\ EnterLocked(t, "must_check", 0)

\* if (_container.empty()) { _cv.wait(lock, pred); } return _pop();
PopMustCheck(t) ==
  /\ pc[t] = "must_check"
  /\ IF container = <<>>
       THEN /\ pc' = [pc EXCEPT ![t] = "must_pred"]
            /\ UNCHANGED <<container, lock, waiters, arg, deadline, ret, returned>>
       ELSE TakeAndReturn(t)
  /\ UNCHANGED <<mode, destroyed, pending, now, ncalls, pushed, signal>>

\* (mutant) _cv.wait(lock) in a do-while: the thread waits before it looks at the
\* container, whatever the container holds.
PopMustPredWaitFirst(t) ==
  /\ pc[t] = "must_pred"
  /\ BeginWait(t, "must_wait")
  /\ UNCHANGED <<mode, destroyed, pending, deadline, now, ncalls, pushed, signal>>

\* _cv.wait(lock, pred): while (!pred()) wait(lock);
PopMustPred(t) ==
  /\ pc[t] = "must_pred"
  /\ IF container = <<>>
       THEN BeginWait(t, "must_wait") /\ UNCHANGED deadline
       ELSE TakeAndReturn(t)
  /\ UNCHANGED <<mode, destroyed, pending, now, ncalls, pushed, signal>>

\* (mutant) _cv.wait(lock) without the predicate: the woken thread takes the
\* mutex and returns what _pop() gives, an empty handle if the container is empty.
PopMustRelockReturn(t) ==
  /\ pc[t] = "must_woken"
  /\ ~destroyed
  /\ lock = NoThread
  /\ pending' = pending \ {t}
  /\ IF container = <<>> THEN ReturnNull(t) ELSE TakeAndReturn(t)
  /\ UNCHANGED <<mode, destroyed, now, ncalls, pushed, signal>>

PopMustRelock(t) == pc[t] = "must_woken" /\ Relock(t, "must_woken", "must_pred")

\* pop_for / pop_until
PopForLock(t) == pc[t] = "idle" /\ \E d \in Durations : EnterLocked(t, "for_enter", d)
PopUntilLock(t) == pc[t] = "idle" /\ \E tp \in TimePoints : EnterLocked(t, "until_enter", tp)

\* (mutant) wait_until(lock, abs) without the predicate in front: the thread
\* waits first and looks at the container only after a wake.
TimedEnterWaitFirst(t, abs) ==
  /\ BeginWait(t, "timed_wait")
  /\ deadline' = [deadline EXCEPT ![t] = abs]
  /\ UNCHANGED <<mode, destroyed, pending, now, ncalls, pushed, signal>>

\* wait_until(lock, abs, pred), first evaluation of
\*   while (!pred()) if (wait_until(lock, abs) == timeout) return pred(); return true;
TimedEnter(t, abs) ==
  /\ IF container = <<>>
       THEN BeginWait(t, "timed_wait") /\ deadline' = [deadline EXCEPT ![t] = abs]
       ELSE TakeAndReturn(t)
  /\ UNCHANGED <<mode, destroyed, pending, now, ncalls, pushed, signal>>

\* _cv.wait_for(lock, timeout, pred) is wait_until(lock, now() + timeout, pred)
PopForEnter(t) == pc[t] = "for_enter" /\ TimedEnter(t, now + arg[t])

\* _cv.wait_until(lock, timeout_time, pred)
PopUntilEnter(t) == pc[t] = "until_enter" /\ TimedEnter(t, arg[t])

TimedRelock(t) == pc[t] = "timed_woken" /\ Relock(t, "timed_woken", "timed_pred")

\* (mutant) the wait has no deadline: it never reports a timeout.
TimedOutNever(t) == FALSE

\* the inner wait_until(lock, abs) reports a timeout when the clock has reached abs
TimedOut(t) == now >= deadline[t]

\* (mutant) on a timeout the wait returns false without evaluating pred() again.
TimedPredNoRecheck(t) ==
  /\ pc[t] = "timed_pred"
  /\ IF TimedOut(t)
       THEN ReturnNull(t)
       ELSE IF container # <<>>
              THEN TakeAndReturn(t)
              ELSE BeginWait(t, "timed_wait") /\ UNCHANGED deadline
  /\ UNCHANGED <<mode, destroyed, pending, now, ncalls, pushed, signal>>

\* After the inner wait returned with the mutex held: on a timeout the result is
\* pred(); otherwise the loop evaluates pred() and waits again when it is false.
TimedPred(t) ==
  /\ pc[t] = "timed_pred"
  /\ IF container # <<>>
       THEN TakeAndReturn(t)
       ELSE IF TimedOut(t)
              THEN ReturnNull(t)
              ELSE BeginWait(t, "timed_wait") /\ UNCHANGED deadline
  /\ UNCHANGED <<mode, destroyed, pending, now, ncalls, pushed, signal>>

\* ------------------------------------------------- the condition variable
Leave(t) ==
  /\ t \in waiters
  /\ waiters' = waiters \ {t}
  /\ pc' = [pc EXCEPT ![t] = Woken(pc[t])]
  /\ UNCHANGED <<mode, destroyed, container, lock, arg, deadline, ret, now, ncalls,
                 pushed,
                 returned, signal>>

\* (mutant) the pop gives up at the deadline: it returns "no value" from the
\* wait without taking the mutex and looking at the container again.
TimeoutReturns(t) ==
  /\ pc[t] = "timed_wait"
  /\ TimedOut(t)
  /\ waiters' = waiters \ {t}
  /\ pc' = [pc EXCEPT ![t] = "idle"]
  /\ ret' = [ret EXCEPT ![t] = Null]
  /\ deadline' = [deadline EXCEPT ![t] = 0]
  /\ UNCHANGED <<mode, destroyed, pending, container, lock, arg, now, ncalls, pushed,
                 returned, signal>>

\* a timed wait ends because the clock reached its deadline
Timeout(t) ==
  /\ pc[t] = "timed_wait"
  /\ TimedOut(t)
  /\ Leave(t)
  /\ pending' = pending \cup {t}

\* a wait may end with no notification and no timeout
Spurious(t) == t \in waiters /\ Leave(t) /\ UNCHANGED pending

\* ---------------------------------------------------------------- time
Tick ==
  /\ now < MaxTime
  /\ now' = now + 1
  /\ UNCHANGED <<mode, destroyed, pending, container, lock, waiters, pc, arg,
                 deadline, ret, ncalls,
                 pushed, returned, signal>>

\* ------------------------------------------------------- specifications
Next ==
  \/ \E t \in Threads : PushLock(t)
  \/ \E t \in Threads : PushInsert(t)
  \/ \E t \in Threads : PushNotify(t)
  \/ \E t \in Threads : PushUnlock(t)
  \/ \E t \in Threads : PopTryLock(t)
  \/ \E t \in Threads : PopTry(t)
  \/ \E t \in Threads : PopMustLock(t)
  \/ \E t \in Threads : PopMustCheck(t)
  \/ \E t \in Threads : PopMustPred(t)
  \/ \E t \in Threads : PopMustRelock(t)
  \/ \E t \in Threads : PopForLock(t)
  \/ \E t \in Threads : PopUntilLock(t)
  \/ \E t \in Threads : PopForEnter(t)
  \/ \E t \in Threads : PopUntilEnter(t)
  \/ \E t \in Threads : TimedRelock(t)
  \/ \E t \in Threads : TimedPred(t)
  \/ \E t \in Threads : Timeout(t)
  \/ \E t \in Threads : Spurious(t)
  \/ Tick

Spec == Init /\ [][Next]_vars

\* What a thread that is inside an operation and is not blocked does next: a
\* running thread is scheduled again, and a timed wait whose deadline has
\* passed ends. Entering an operation and a spurious wake-up are not among
\* them: nothing obliges either to happen.
Step(t) ==
  \/ PushInsert(t) \/ PushNotify(t) \/ PushUnlock(t)
  \/ PopTry(t)
  \/ PopMustCheck(t) \/ PopMustPred(t)
  \/ PopForEnter(t) \/ PopUntilEnter(t) \/ TimedPred(t)
  \/ Timeout(t)

\* A thread blocked on the mutex at the end of a wait.
Reacquire(t) == PopMustRelock(t) \/ TimedRelock(t)

\* Fair scheduling: the clock advances, a thread that can run does, and a
\* thread blocked on the mutex gets it if the mutex is free again and again
\* (other threads may take it in between, so the fairness is strong).
Fairness ==
  /\ WF_vars(Tick)
  /\ \A t \in Threads : WF_vars(Step(t)) /\ SF_vars(Reacquire(t))

FairSpec == Spec /\ Fairness

\* One consumer that only calls pop_must, the other threads only push.
Consumer == "t1"

NextWake ==
  \/ PopMustLock(Consumer)
  \/ PopMustCheck(Consumer)
  \/ PopMustPred(Consumer)
  \/ PopMustRelock(Consumer)
  \/ Spurious(Consumer)
  \/ \E t \in Threads \ {Consumer} : PushLock(t)
  \/ \E t \in Threads \ {Consumer} : PushInsert(t)
  \/ \E t \in Threads \ {Consumer} : PushNotify(t)
  \/ \E t \in Threads \ {Consumer} : PushUnlock(t)
  \/ Tick

FairWake == Init /\ [][NextWake]_vars /\ Fairness

\* One producer and two consumers that call pop_must or pop_try.
Producer == "t3"
Consumers == Threads \ {Producer}

NextMust ==
  \/ PushLock(Producer)
  \/ PushInsert(Producer)
  \/ PushNotify(Producer)
  \/ PushUnlock(Producer)
  \/ \E t \in Consumers : PopMustLock(t)
  \/ \E t \in Consumers : PopMustCheck(t)
  \/ \E t \in Consumers : PopMustPred(t)
  \/ \E t \in Consumers : PopMustRelock(t)
  \/ \E t \in Consumers : PopTryLock(t)
  \/ \E t \in Consumers : PopTry(t)
  \/ \E t \in Consumers : Spurious(t)
  \/ Tick

FairMust == Init /\ [][NextMust]_vars /\ Fairness

\* One producer, one consumer that calls the timed pops and one consumer that
\* calls pop_must or pop_try.
TimedConsumer == "t1"
OtherConsumer == "t2"

NextTimed ==
  \/ PushLock(Producer)
  \/ PushInsert(Producer)
  \/ PushNotify(Producer)
  \/ PushUnlock(Producer)
  \/ PopForLock(TimedConsumer)
  \/ PopUntilLock(TimedConsumer)
  \/ PopForEnter(TimedConsumer)
  \/ PopUntilEnter(TimedConsumer)
  \/ TimedRelock(TimedConsumer)
  \/ TimedPred(TimedConsumer)
  \/ Timeout(TimedConsumer)
  \/ PopMustLock(OtherConsumer)
  \/ PopMustCheck(OtherConsumer)
  \/ PopMustPred(OtherConsumer)
  \/ PopMustRelock(OtherConsumer)
  \/ PopTryLock(OtherConsumer)
  \/ PopTry(OtherConsumer)
  \/ \E t \in Threads : Spurious(t)
  \/ Tick

FairTimed == Init /\ [][NextTimed]_vars /\ Fairness

\* One producer whose allocations may fail and two consumers that call
\* pop_must or pop_try.
NextAlloc ==
  \/ PushLock(Producer)
  \/ PushInsert(Producer)
  \/ PushFail(Producer)
  \/ PushNotify(Producer)
  \/ PushUnlock(Producer)
  \/ \E t \in Consumers : PopMustLock(t)
  \/ \E t \in Consumers : PopMustCheck(t)
  \/ \E t \in Consumers : PopMustPred(t)
  \/ \E t \in Consumers : PopMustRelock(t)
  \/ \E t \in Consumers : PopTryLock(t)
  \/ \E t \in Consumers : PopTry(t)
  \/ \E t \in Consumers : Spurious(t)
  \/ Tick

FairAlloc == Init /\ [][NextAlloc]_vars /\ Fairness

\* ---------------------------------------------------------- destruction
\* ~Queue() is the implicit destructor: it destroys _cv, _lock and _container
\* (releasing the items still queued) and does nothing else: it neither wakes
\* the threads suspended on _cv nor waits for them. Taken here when no thread
\* is inside a critical section: every thread is outside the queue or is
\* suspended in pop_must.
Destroy ==
  /\ ~destroyed
  /\ lock = NoThread
  /\ \A t \in Threads : pc[t] \in {"idle", "must_wait"}
  /\ destroyed' = TRUE
  /\ container' = <<>>
  /\ UNCHANGED <<mode, lock, waiters, pc, arg, deadline, ret, now, ncalls, pushed,
                 returned, signal, pending>>

\* A thread that leaves its wait after the destruction goes on to lock a
\* destroyed mutex and to read a destroyed container: its behaviour is undefined
\* from there, and it never returns a result of pop_must.
UseAfterDestroy(t) ==
  /\ destroyed
  /\ pc[t] = "must_woken"
  /\ pc' = [pc EXCEPT ![t] = "undefined"]
  /\ UNCHANGED <<mode, destroyed, pending, container, lock, waiters, arg, deadline,
                 ret, now, ncalls, pushed, returned, signal>>

\* One producer, two consumers that call pop_must, and the owner of the queue,
\* which may destroy it. After the destruction nothing signals the condition
\* variable any more; a suspended thread stays suspended unless a spurious
\* wake-up, which nothing obliges to happen, ends its wait.
NextDestroy ==
  \/ PushLock(Producer)
  \/ PushInsert(Producer)
  \/ PushNotify(Producer)
  \/ PushUnlock(Producer)
  \/ \E t \in Consumers : PopMustLock(t)
  \/ \E t \in Consumers : PopMustCheck(t)
  \/ \E t \in Consumers : PopMustPred(t)
  \/ \E t \in Consumers : PopMustRelock(t)
  \/ \E t \in Consumers : Spurious(t)
  \/ \E t \in Consumers : UseAfterDestroy(t)
  \/ Destroy
  \/ Tick

FairDestroy == Init /\ [][NextDestroy]_vars /\ Fairness

\* The queue holds exactly one item (one push has completed) and every thread
\* calls pop_try once; nobody pushes.
InitRace ==
  /\ mode \in {"fifo", "prio"}
  /\ \E v \in Values : container = <<Item(1, v)>> /\ pushed = <<v>>
  /\ lock = NoThread
  /\ waiters = {}
  /\ pc = [t \in Threads |-> "idle"]
  /\ arg = [t \in Threads |-> 0]
  /\ deadline = [t \in Threads |-> 0]
  /\ ret = [t \in Threads |-> NoRet]
  /\ now \in TimePoints
  /\ ncalls = 1
  /\ returned = <<>>
  /\ signal = NoSignal
  /\ pending = {}
  /\ destroyed = FALSE

RaceCall(t) == ret[t] = NoRet /\ PopTryLock(t)

NextRace ==
  \/ \E t \in Threads : RaceCall(t)
  \/ \E t \in Threads : PopTry(t)

SpecRace == InitRace /\ [][NextRace]_vars

\* ----------------------------------------------------------- properties
Range(s) == {s[i] : i \in DOMAIN s}
BagOfSeq(s) == [x \in Range(s) |-> Cardinality({i \in DOMAIN s : s[i] = x})]

\* every item pushed so far: the k-th push allocated item k
PushedItems == {Item(i, pushed[i]) : i \in DOMAIN pushed}

\* C1: conservation. In every reachable state the multiset of the items pushed
\* so far equals the multiset of the items pops have returned plus the multiset
\* of the items in the container: nothing returned that was not pushed, nothing
\* returned twice, nothing lost.
C1_Conservation ==
  BagOfSeq(returned) (+) BagOfSeq(container) = SetToBag(PushedItems)

\* C1 witness: three items were pushed, one of them has been returned by a pop
\* and two are still in the container.
C1_Witness ==
  /\ Len(pushed) = 3
  /\ Len(returned) = 1
  /\ Len(container) = 2

\* C2: FIFO order. With no comparator, the k-th item any pop returns is the k-th
\* item pushed, and the container holds the remaining items in insertion order,
\* so every pop takes the earliest-inserted item still in the container.
C2_FifoOrder ==
  mode = "fifo" =>
    /\ \A k \in DOMAIN returned : returned[k] = Item(k, pushed[k])
    /\ \A k \in DOMAIN container :
         container[k] = Item(Len(returned) + k, pushed[Len(returned) + k])

\* C2 witness: two items of differing values were pushed into a FIFO queue and
\* both have been popped, the smaller one, pushed first, first.
C2_Witness ==
  /\ mode = "fifo"
  /\ Len(pushed) = 2
  /\ Len(returned) = 2
  /\ returned[1].val < returned[2].val

\* C3: priority order. With a comparator, every step in which a pop returns an
\* item leaves no item in the container that compares greater than the item
\* returned, and removes exactly that item.
C3_PriorityOrder ==
  [][(mode = "prio" /\ Len(returned') = Len(returned) + 1) =>
       LET x == returned'[Len(returned')] IN
         /\ \A y \in Range(container') : ~Cmp(x, y)
         /\ BagOfSeq(container') (+) SetToBag({x}) = BagOfSeq(container)]_vars

\* C3 witness: in a priority queue the second item pushed was greater than the
\* first, rose to the root, and was returned by the first pop while two other
\* items stayed in the container.
C3_Witness ==
  /\ mode = "prio"
  /\ Len(pushed) = 3
  /\ pushed[1] < pushed[2]
  /\ Len(returned) = 1
  /\ returned[1].id = 2
  /\ Len(container) = 2

MustPcs == {"must_check", "must_pred", "must_wait", "must_woken"}
TimedPcs == {"timed_wait", "timed_woken", "timed_pred"}

\* C5: no lost wake-up. Under fair scheduling no thread stays inside pop_must
\* for ever while the container holds an item: from every state in which a
\* thread is inside pop_must and the container is non-empty, the thread returns
\* or the container is emptied by other pops.
C5_NoLostWakeup ==
  \A t \in Threads :
    (pc[t] \in MustPcs /\ container # <<>>) ~> (pc[t] = "idle" \/ container = <<>>)

\* C5 witness: two consumers are in pop_must, neither in the wait set any more
\* and neither holding the mutex yet, and two items are in the container.
C5_Witness ==
  \E t, u \in Threads :
    /\ t # u
    /\ pc[t] = "must_woken"
    /\ pc[u] = "must_woken"
    /\ Len(container) = 2

\* C8: the timeout is a hard contract. Under fair scheduling a pop_for or
\* pop_until whose deadline has passed does not stay in its wait, whatever the
\* other consumer and the producer do and without any push: it returns. The
\* step that returns hands out "no value" exactly when the container is empty
\* at that step, and only once the deadline has passed.
C8_TimeoutReturns ==
  /\ (pc[TimedConsumer] \in TimedPcs /\ now >= deadline[TimedConsumer])
       ~> (pc[TimedConsumer] = "idle")
  /\ [][\A t \in Threads :
          (pc[t] \in TimedPcs /\ pc'[t] = "idle")
            => /\ (ret'[t] = Null) <=> (container = <<>>)
               /\ (ret'[t] = Null) => (now >= deadline[t])]_vars

\* C8 witness: a timed pop came back with "no value" although no push was ever
\* made, while another consumer is still suspended in pop_must.
C8_Witness ==
  \E t, u \in Threads :
    /\ pc[t] = "idle"
    /\ ret[t] = Null
    /\ pushed = <<>>
    /\ now > 0
    /\ pc[u] = "must_wait"

AllItems == {Item(i, v) : i \in 1..MaxPush, v \in Values}

\* C4: blocking then wake. A single consumer in pop_must has returned nothing
\* while no push has happened; and once a push has put one item x into the
\* empty container while the consumer is suspended, the consumer, under fair
\* scheduling, returns, and what it returns is x (in a priority queue a greater
\* item pushed before the consumer ran may be returned in its place).
C4_BlockThenWake ==
  /\ [](pushed = <<>> => ret[Consumer] = NoRet)
  /\ \A x \in AllItems :
       (pc[Consumer] = "must_wait" /\ container = <<x>>)
         ~> (/\ pc[Consumer] = "idle"
             /\ \/ ret[Consumer] = x
                \/ mode = "prio" /\ Len(pushed) > x.id /\ ret[Consumer] \in AllItems)

\* C4 witness: the consumer was suspended on the empty queue, a producer pushed
\* one item and its notify_one has just unblocked the consumer.
C4_Witness ==
  /\ signal.saw = {Consumer}
  /\ signal.woke = {Consumer}
  /\ pc[Consumer] = "must_woken"
  /\ Len(container) = 1
  /\ returned = <<>>

\* the threads a pop has handed an item to
Got == {t \in Threads : ret[t] \notin {NoRet, Null}}

\* C6: no double delivery. With every thread calling pop_try once against a
\* queue holding exactly one item, at most one thread ever holds the item, the
\* first pop_try to finish gets it, and when all have finished exactly one
\* thread has the item and all the others have "no value".
C6_NoDoubleDelivery ==
  /\ Cardinality(Got) <= 1
  /\ (\E t \in Threads : ret[t] # NoRet) =>
       /\ Cardinality(Got) = 1
       /\ \A t \in Got : ret[t] = Item(1, pushed[1])
       /\ \A t \in Threads \ Got : ret[t] \in {NoRet, Null}
       /\ container = <<>>

\* C6 witness: all the racing consumers have finished, one with the item.
C6_Witness ==
  /\ \A t \in Threads : pc[t] = "idle" /\ ret[t] # NoRet
  /\ Cardinality({t \in Threads : ret[t] = Null}) = Cardinality(Threads) - 1

\* what removing the front/top item r from c, leaving c2, means
Removal(c, c2, r) ==
  /\ r \in Range(c)
  /\ BagOfSeq(c2) (+) SetToBag({r}) = BagOfSeq(c)
  /\ mode = "fifo" => r = Head(c) /\ c2 = Tail(c)
  /\ mode = "prio" => \A y \in Range(c) : ~Cmp(r, y)

\* C7: pop_try never blocks. A thread inside pop_try holds the mutex and is not
\* in the wait set, and its next step ends the call with the mutex released:
\* with "no value" and the container unchanged if the container is empty,
\* otherwise with the front/top item removed; pop_must's returning step removes
\* the item in the same way.
C7_PopTryNonBlocking ==
  [][\A t \in Threads :
       /\ pc[t] = "try_check" => lock = t /\ t \notin waiters
       /\ (pc[t] = "try_check" /\ pc'[t] # "try_check") =>
            /\ pc'[t] = "idle"
            /\ lock' = NoThread
            /\ waiters' = waiters
            /\ IF container = <<>>
                 THEN ret'[t] = Null /\ container' = container
                 ELSE Removal(container, container', ret'[t])
       /\ (pc[t] \in {"must_check", "must_pred"} /\ pc'[t] = "idle") =>
            Removal(container, container', ret'[t])]_vars

\* C7 witness: a thread is inside pop_try on an empty container while another
\* consumer is suspended in the wait set.
C7_Witness ==
  \E t \in Threads :
    /\ pc[t] = "try_check"
    /\ container = <<>>
    /\ waiters # {}

\* a timed pop is at its first predicate evaluation with a deadline that has
\* already passed: pop_for with a duration <= 0, pop_until with a time <= now
Degenerate(t) ==
  \/ pc[t] = "for_enter" /\ arg[t] <= 0
  \/ pc[t] = "until_enter" /\ arg[t] <= now

\* C9 as claimed: a timed pop with a degenerate deadline behaves like pop_try:
\* its one predicate evaluation ends the call, with "no value" and the container
\* unchanged if the container is empty and with the item otherwise; it never
\* joins the wait set.
C9_Original ==
  [][\A t \in Threads :
       (Degenerate(t) /\ pc'[t] # pc[t]) =>
          /\ pc'[t] = "idle"
          /\ t \notin waiters'
          /\ IF container = <<>>
               THEN ret'[t] = Null /\ container' = container
               ELSE Removal(container, container', ret'[t])]_vars

\* C9 as amended: with a degenerate deadline, a timed pop that finds the
\* container non-empty at its first predicate evaluation returns the item at
\* once, as pop_try does. One that finds it empty releases the mutex and joins
\* the wait set with its deadline already expired (so the wait ends without any
\* push), takes the mutex again and evaluates the predicate a second and last
\* time: it returns the item if the container is non-empty then and "no value"
\* with the container unchanged otherwise, i.e. pop_try's result for the
\* container as it is at that last evaluation.
C9_DegenerateDeadline ==
  [][\A t \in Threads :
       /\ (Degenerate(t) /\ pc'[t] # pc[t]) =>
            IF container = <<>>
              THEN /\ pc'[t] = "timed_wait"
                   /\ t \in waiters'
                   /\ lock' = NoThread
                   /\ deadline'[t] <= now
                   /\ container' = container
              ELSE /\ pc'[t] = "idle"
                   /\ lock' = NoThread
                   /\ Removal(container, container', ret'[t])
       /\ (pc[t] = "timed_wait" /\ deadline[t] <= now) => ENABLED Timeout(t)
       /\ (pc[t] = "timed_pred" /\ deadline[t] <= now /\ pc'[t] # pc[t]) =>
            /\ pc'[t] = "idle"
            /\ lock' = NoThread
            /\ IF container = <<>>
                 THEN ret'[t] = Null /\ container' = container
                 ELSE Removal(container, container', ret'[t])]_vars

\* C9 witness: a pop_for with a negative duration found the container empty,
\* left its wait, and an item pushed meanwhile is in the container when it is
\* about to take the mutex for its second predicate evaluation.
C9_Witness ==
  \E t \in Threads :
    /\ pc[t] = "timed_woken"
    /\ deadline[t] < 0
    /\ container # <<>>

\* C10: each push wakes exactly one waiting consumer if any is waiting. The
\* notify_one of a push removes exactly one thread from a non-empty wait set
\* and unblocks it, leaving every other waiter suspended; on an empty wait set
\* it changes nothing but the pushing thread's position.
C10_NotifyExactlyOne ==
  [][\A t \in Threads :
       (pc[t] = "push_notify" /\ pc'[t] = "push_unlock") =>
          /\ waiters' \subseteq waiters
          /\ Cardinality(waiters \ waiters') = (IF waiters = {} THEN 0 ELSE 1)
          /\ \A u \in waiters \ waiters' : pc'[u] = Woken(pc[u])
          /\ \A u \in Threads \ ({t} \cup (waiters \ waiters')) : pc'[u] = pc[u]]_vars

\* C10 witness: a push found two consumers suspended and unblocked one of them.
C10_Witness ==
  /\ Cardinality(signal.saw) = 2
  /\ Cardinality(signal.woke) = 1
  /\ Cardinality(waiters) = 1

PushPcs == {"push_insert", "push_notify", "push_unlock"}

\* C11 as claimed: push wakes a waiting consumer only after it has released the
\* lock: the step of a push that signals the condition variable is taken by a
\* thread that does not own the mutex.
C11_Original ==
  [][\A t \in Threads :
       (pc[t] = "push_notify" /\ pc'[t] = "push_unlock") => lock # t]_vars

\* C11 as amended: push performs its steps in this order: acquire the lock,
\* create the handle and insert it into the container, wake one waiting
\* consumer while still holding the lock, and only then release the lock. The
\* container changes in the insertion step only, the wait set in the wake-up
\* step only, and the pushing thread owns the mutex from the first step to the
\* last.
C11_PushOrder ==
  [][\A t \in Threads :
       /\ pc[t] \in PushPcs => lock = t
       /\ (pc[t] = "idle" /\ pc'[t] \in PushPcs) =>
            /\ pc'[t] = "push_insert"
            /\ lock = NoThread /\ lock' = t
            /\ container' = container /\ waiters' = waiters
       /\ (pc[t] = "push_insert" /\ pc'[t] # pc[t]) =>
            /\ pc'[t] = "push_notify"
            /\ lock' = t
            /\ Len(container') = Len(container) + 1
            /\ waiters' = waiters
       /\ (pc[t] = "push_notify" /\ pc'[t] # pc[t]) =>
            /\ pc'[t] = "push_unlock"
            /\ lock = t /\ lock' = t
            /\ container' = container
            /\ waiters' = waiters \ signal'.woke
            /\ signal'.saw = waiters
       /\ (pc[t] = "push_unlock" /\ pc'[t] # pc[t]) =>
            /\ pc'[t] = "idle"
            /\ lock' = NoThread
            /\ container' = container /\ waiters' = waiters]_vars

\* C11 witness: a push has inserted its item and unblocked a suspended consumer,
\* and still owns the mutex the consumer now needs.
C11_Witness ==
  \E t, u \in Threads :
    /\ pc[t] = "push_unlock"
    /\ lock = t
    /\ signal.woke = {u}
    /\ pc[u] \in {"must_woken", "timed_woken"}

\* the positions at which a thread reads or changes the container: the
\* insertion of push, the empty checks, the predicate evaluations and _pop()
HoldPcs == PushPcs \cup {"try_check", "must_check", "must_pred", "for_enter",
                         "until_enter", "timed_pred"}

\* C12: mutual exclusion. At most one thread is at a position where it reads or
\* changes the container, that thread owns the mutex and nobody else does
\* (the predicate re-check after a wake included); every step that changes the
\* container is a step of the thread that owns the mutex; and a thread
\* suspended in a wait, or waiting to take the mutex again, does not own it.
C12_MutualExclusion ==
  /\ [](/\ Cardinality({t \in Threads : pc[t] \in HoldPcs}) <= 1
        /\ \A t \in Threads : (pc[t] \in HoldPcs) <=> (lock = t)
        /\ lock \in Threads \cup {NoThread})
  /\ [][container' # container =>
         /\ lock \in Threads
         /\ pc[lock] \in HoldPcs
         /\ pc'[lock] # pc[lock]
         /\ \A u \in Threads \ {lock} : pc'[u] = pc[u]]_vars

\* C12 witness: a consumer woken from pop_must owns the mutex and is about to
\* re-check the predicate on a non-empty container, while another woken
\* consumer is waiting for the same mutex.
C12_Witness ==
  \E t, u \in Threads :
    /\ pc[t] = "must_pred"
    /\ lock = t
    /\ pc[u] \in {"must_woken", "timed_woken"}
    /\ container # <<>>

WaitPcs == {"must_wait", "timed_wait"}

\* C13: suspension points. The wait set holds exactly the threads suspended in
\* pop_must, pop_for or pop_until; a thread joins it only from a predicate
\* evaluation of one of these three; a thread executing push or pop_try is
\* never in it and never steps into it. A push that owns the mutex can always
\* take its next step, however many items the container holds, and under fair
\* scheduling it completes.
C13_SuspensionPoints ==
  /\ [](\A t \in Threads :
          /\ (t \in waiters) <=> (pc[t] \in WaitPcs)
          /\ pc[t] \in PushPcs \cup {"try_check"} => t \notin waiters
          /\ pc[t] = "push_insert" => ENABLED PushInsert(t)
          /\ pc[t] = "push_notify" => ENABLED PushNotify(t)
          /\ pc[t] = "push_unlock" => ENABLED PushUnlock(t))
  /\ [][\A t \in Threads :
          /\ (t \in waiters' \ waiters) =>
               pc[t] \in {"must_pred", "for_enter", "until_enter", "timed_pred"}
          /\ pc[t] \in PushPcs \cup {"try_check"} =>
               pc'[t] \in PushPcs \cup {"try_check", "idle"}]_vars
  /\ (pc[Producer] \in PushPcs) ~> (pc[Producer] = "idle")

\* C13 witness: a push owns the mutex and is about to insert a third item into
\* a container holding two, while a consumer that was suspended has been
\* unblocked and waits for the mutex.
C13_Witness ==
  /\ pc[Producer] = "push_insert"
  /\ Len(container) = 2
  /\ \E u \in Threads : pc[u] \in {"must_woken", "timed_woken"}

\* C14: destroying the queue while consumers are blocked in pop_must does not
\* leave them hanging: under fair scheduling a thread that is inside pop_must
\* when the queue has been destroyed eventually returns from it.
C14_DestroyNoHang ==
  \A t \in Threads :
    (destroyed /\ pc[t] \in MustPcs) ~> (pc[t] = "idle")

C16_PopMustNeverNull ==
  /\ [][\A t \in Threads :
          /\ (pc[t] \in MustPcs /\ pc'[t] = "idle") =>
               /\ lock = t
               /\ container # <<>>
               /\ ret'[t] # Null
               /\ Removal(container, container', ret'[t])
          /\ (pc[t] = "must_woken" /\ pc'[t] # pc[t]) =>
               pc'[t] = "must_pred" /\ lock' = t /\ container' = container
          /\ (pc[t] = "must_pred" /\ container = <<>> /\ pc'[t] # pc[t]) =>
               pc'[t] = "must_wait" /\ t \in waiters' /\ lock' = NoThread
          /\ (pc[t] = "timed_pred" /\ container = <<>> /\ pc'[t] # pc[t]) =>
               \/ pc'[t] = "timed_wait" /\ t \in waiters' /\ now < deadline[t]
               \/ pc'[t] = "idle" /\ ret'[t] = Null /\ now >= deadline[t]]_vars
  /\ [](\A i, j \in DOMAIN returned : returned[i] = returned[j] => i = j)

\* C16 witness: a consumer in pop_must was signalled by the push of the only
\* item, another consumer has taken that item in the meantime, and the
\* signalled consumer, not yet holding the mutex, will find the container empty.
C16_Witness ==
  \E t \in Threads :
    /\ pc[t] = "must_woken"
    /\ t \in pending
    /\ Len(pushed) = 1
    /\ Len(returned) = 1
    /\ container = <<>>

\* the positions of a pop that has just taken the mutex on entry
EntryPcs == {"try_check", "must_check", "for_enter", "until_enter"}

\* C17: push visibility. From the insertion step of a push on, still inside
\* its critical section, the pushed item is in the container until a pop
\* returns it. So a pop of any kind that takes the mutex after the push's
\* critical section and finds the item not yet removed finds the container
\* non-empty: its first step returns an item and ends the call, without joining
\* the wait set. No thread ever joins the wait set on a non-empty container.
C17_PushVisibility ==
  /\ [](\A i \in DOMAIN pushed :
          Item(i, pushed[i]) \in Range(container) \cup Range(returned))
  /\ [][\A t \in Threads :
          /\ (pc[t] \in EntryPcs /\ container # <<>> /\ pc'[t] # pc[t]) =>
               /\ pc'[t] = "idle"
               /\ ret'[t] \in Range(container)
               /\ Removal(container, container', ret'[t])
               /\ waiters' = waiters
          /\ (t \in waiters' \ waiters) => container = <<>>]_vars

\* C17 witness: a push has completed, nobody was waiting and nothing has been
\* popped; a pop_for with a positive duration or a pop_until with a future
\* deadline has taken the mutex and is at its first predicate evaluation.
C17_Witness ==
  \E t \in Threads :
    /\ \/ pc[t] = "for_enter" /\ arg[t] > 0
       \/ pc[t] = "until_enter" /\ arg[t] > now
    /\ container # <<>>
    /\ returned = <<>>
    /\ waiters = {}
    /\ \A u \in Threads \ {t} : pc[u] = "idle"

\* C18: element count steps. The insertion step of a push increases the number
\* of items in the container by exactly 1 and no other step of the push changes
\* it; a step in which a pop returns an item decreases it by exactly 1; a step
\* in which a pop returns "no value" leaves the container as it is; no other
\* step changes the container. The count is the number of items pushed minus
\* the number of items returned, and is never negative.
C18_CountSteps ==
  /\ [](/\ Len(container) = Len(pushed) - Len(returned)
        /\ Len(returned) <= Len(pushed))
  /\ [][
         /\ Len(pushed') = Len(pushed) + 1 =>
            /\ Len(container') = Len(container) + 1
            /\ \E t \in Threads : pc[t] = "push_insert" /\ pc'[t] = "push_notify"
         /\ Len(returned') = Len(returned) + 1 =>
            /\ Len(container') = Len(container) - 1
            /\ \E t \in Threads :
                 pc[t] # "idle" /\ pc'[t] = "idle" /\ ret'[t] = returned'[Len(returned')]
         /\ (\E t \in Threads : pc[t] # "idle" /\ pc'[t] = "idle" /\ ret'[t] = Null) =>
            container' = container
         /\ (pushed' = pushed /\ returned' = returned) => container' = container
         /\ Len(pushed') \in {Len(pushed), Len(pushed) + 1}
         /\ Len(returned') \in {Len(returned), Len(returned) + 1}]_vars

\* C18 witness: two pushes and one returning pop have completed, a pop has come
\* back with "no value", and the container holds one item.
C18_Witness ==
  /\ Len(pushed) = 2
  /\ Len(returned) = 1
  /\ Len(container) = 1
  /\ \E t \in Threads : pc[t] = "idle" /\ ret[t] = Null
  /\ \A t \in Threads : pc[t] = "idle"

\* C19: "no value" only from an empty container. Every step in which a pop of
\* any kind ends with "no value" is taken by the thread that owns the mutex, on
\* an empty container, which it leaves empty. A timed pop whose deadline has
\* expired and that finds an item at its predicate evaluation (a push landed
\* while it timed out) returns the item, not "no value".
C19_NullOnlyWhenEmpty ==
  [][\A t \in Threads :
       /\ (pc[t] # "idle" /\ pc'[t] = "idle" /\ ret'[t] = Null) =>
            /\ lock = t
            /\ container = <<>>
            /\ container' = <<>>
            /\ pc[t] \in {"try_check", "timed_pred"}
       /\ (/\ pc[t] \in {"timed_pred", "for_enter", "until_enter"}
           /\ container # <<>>
           /\ pc'[t] # pc[t]) =>
            /\ pc'[t] = "idle"
            /\ ret'[t] = ContainerFront(mode, container)
            /\ ret'[t] # Null]_vars

\* C19 witness: a timed pop with a deadline in the future timed out on the
\* empty queue at the moment a push, which found nobody waiting any more,
\* inserted an item; the timed pop has not taken the mutex again yet.
C19_Witness ==
  \E t, u \in Threads :
    /\ pc[t] = "timed_woken"
    /\ t \in pending
    /\ deadline[t] > 0
    /\ now >= deadline[t]
    /\ pc[u] = "push_unlock"
    /\ signal.saw = {}
    /\ container # <<>>

\* C20 as claimed: in every reachable state in which a consumer is suspended on
\* the condition variable, the number of items in the container is at most the
\* number of consumers that have been signalled or have timed out and have not
\* taken the mutex again yet.
C20_Original ==
  waiters # {} => Len(container) <= Cardinality(pending)

\* C20 as amended: the same bound in every reachable state in which no thread
\* owns the mutex (inside a critical section it can fail: a push has inserted
\* and not yet signalled, or a woken consumer has taken the mutex and not yet
\* removed its item). A consumer joins the wait set only under the mutex on an
\* empty container, and every insertion made while a consumer is suspended is
\* followed, in the same critical section, by the wake-up of one suspended
\* consumer.
C20_WakeAccounting ==
  /\ []((lock = NoThread /\ waiters # {}) => Len(container) <= Cardinality(pending))
  /\ [](pending \subseteq {t \in Threads : pc[t] \in {"must_woken", "timed_woken"}})
  /\ [][\A t \in Threads :
          /\ (t \in waiters' \ waiters) => (lock = t /\ container = <<>>)
          /\ (pc[t] = "push_notify" /\ pc'[t] # pc[t] /\ waiters # {}) =>
               /\ lock = t
               /\ Cardinality(pending') = Cardinality(pending) + 1
               /\ pending' \ pending \subseteq waiters]_vars

\* C20 witness: two consumers were suspended, a push has completed and has
\* signalled one of them; nobody owns the mutex, the other consumer is still
\* suspended, and the one item is matched by the one pending wake-up.
C20_Witness ==
  /\ lock = NoThread
  /\ Cardinality(waiters) = 1
  /\ Cardinality(pending) = 1
  /\ Len(container) = 1
  /\ \A t \in Threads : pc[t] \notin PushPcs

=============================================================================
